---- MODULE Spec2Model ----
(***************************************************************************)
(* A model of mogwai's GizmoComponent (mogwai/src/component.rs): one       *)
(* component instance, its state lock, the model-message responder, the   *)
(* batching responder on the internal view channel, the one-shot flush    *)
(* callback and with_state.                                               *)
(*                                                                         *)
(* The program is single threaded (a browser event loop): an event is an  *)
(* external call (GizmoComponent::update, with_state) or a timer callback, *)
(* and `stack` is the chain of calls of the event being processed.        *)
(* Component::update and the responders on the public output are user     *)
(* code: each of their steps is chosen nondeterministically.              *)
(* A failed `expect` is a panic: it ends the program (aborted).           *)
(***************************************************************************)
EXTENDS Integers, Sequences, FiniteSets, TLC

\* ---- bounds of the model ----
MaxSends == 2   \* sends on tx_in (external, nested, from responders, from view)
MaxViews == 2   \* sends on tx_view
MaxState == 1   \* the state is incremented up to this value
MaxReads == 2   \* calls of with_state
MaxClicks == 3  \* sends on tx_in of the counter component
MaxMsg   == 2   \* the model messages of the stateless component are 1..MaxMsg
MaxInit  == 2   \* the length of the list given to run_init
MaxBranches == 2 \* calls of tx_into
MaxOps   == 3   \* sends on tx_in and calls of with_state, run_init and tx_into, together

VARIABLES
  kind,       \* the Component implementation T: "generic", "counter" or "stateless"
  pc,         \* "start": before GizmoComponent::new; "view": inside view; "ready"
  state,      \* the component state T behind component_var (a click counter)
  stateLock,  \* the Mutex around the state: "free" or "held"
  out_msgs,   \* the pending buffer (Arc<Mutex<Vec<ViewMsg>>>)
  timers,     \* the timeout callbacks scheduled and not yet run
  nextTimer,  \* the id the next scheduled callback gets
  stack,      \* the frames of the calls in progress, innermost last
  aborted,    \* a panic happened
  \* ---- history, read by the properties only ----
  committed,  \* the state at the last boundary of an update call
  sendLog,    \* one entry per send on tx_in
  done,       \* the update calls that returned
  pushed,     \* one entry per send on tx_view, in order
  delivered,  \* one entry per send on tx_out, in order
  flushLog,   \* one entry per run of a flush callback
  observed,   \* one entry per application of with_state's function
  reads,      \* the number of with_state calls
  viewCalls,  \* the number of calls of Component::view
  init,       \* <<>>, or one entry for the call of run_init, which consumes the handle
  bufLock,    \* the Mutex around out_msgs: "free" or "held"
  responders, \* the responders on the public output (rx_out), in registration order
  received    \* one entry per call of a responder, in the order of the calls

vars == <<bufLock, kind, pc, state, stateLock, out_msgs, timers, nextTimer, stack, aborted,
          committed, sendLog, done, pushed, delivered, flushLog, observed,
          reads, viewCalls, init, responders, received>>

hist == <<committed, sendLog, done, pushed, delivered, flushLog, observed,
          reads, viewCalls, init, responders, received>>

\* ---- helpers on the call stack ----
Top == stack[Len(stack)]
Pop == SubSeq(stack, 1, Len(stack) - 1)
SetTop(f) == [stack EXCEPT ![Len(stack)] = f]
InFrame(op) == ~aborted /\ Len(stack) > 0 /\ Top.op = op
InUpdate == \E i \in 1..Len(stack) : stack[i].op = "update"
CurrentCall == IF Len(stack) > 0 /\ Top.op = "update" THEN Top.call ELSE 0

\* The implementations of Component: user code chosen step by step
\* ("generic"), the click counter of the module documentation ("counter")
\* and Box<BuilderFn> ("stateless").
Kinds == {"generic", "counter", "stateless"}

\* T::ModelMsg: the counter has In::Click only (0); so has the generic one
ModelMsgs == IF kind = "stateless" THEN 1..MaxMsg ELSE {0}
SendBound == IF kind = "counter" THEN MaxClicks ELSE MaxSends
Branches == Cardinality({r \in 1..Len(responders) : responders[r].kind = "fwd"})
Ops == Len(sendLog) + reads + Len(init) + Branches

\* where T::update starts for a model message
UpdateEntry == CASE kind = "generic" -> "any"
                 [] kind = "counter" -> "inc"
                 [] kind = "stateless" -> "send"

Init ==
  /\ kind \in Kinds
  /\ pc = "start"
  /\ state = 0
  /\ stateLock = "free"
  /\ bufLock = "free"
  /\ out_msgs = <<>>
  /\ timers = {}
  /\ nextTimer = 1
  /\ stack = <<>>
  /\ aborted = FALSE
  /\ committed = 0
  /\ sendLog = <<>>
  /\ done = {}
  /\ pushed = <<>>
  /\ delivered = <<>>
  /\ flushLog = <<>>
  /\ observed = <<>>
  /\ reads = 0
  /\ viewCalls = 0
  /\ init = <<>>
  /\ responders = <<>>
  /\ received = <<>>

\* a flush callback is running (it is the outermost call)
InFlush == stack # <<>> /\ stack[1].op = "flush"

\* ---- Mutex::try_lock ----
TryLock(lock) == lock = "free"

\* state.try_lock().expect(..) in the responder on rx_in
UpdateTryLockReentrant(lock) == TRUE
UpdateTryLock(lock) == TryLock(lock)

\* self.state.try_lock().expect(..) in with_state
WithStateNoLock(lock) == TRUE
WithStateTryLock(lock) == TryLock(lock)

\* the values waiting in the pending buffer
BufVals == [i \in 1..Len(out_msgs) |-> out_msgs[i].val]

\* The responder registered on rx_in: take the state lock or panic, then
\* run T::update.  `from` says who sent, `base` is the stack of the sender.
RxInRespond(from, base, m) ==
  /\ sendLog' = Append(sendLog, [from |-> from, by |-> CurrentCall, msg |-> m,
                                 ran |-> UpdateTryLock(stateLock)])
  /\ IF UpdateTryLock(stateLock)
       THEN /\ stateLock' = "held"
            /\ stack' = Append(base, [op |-> "update", call |-> Len(sendLog) + 1,
                                      at |-> UpdateEntry, st0 |-> state,
                                      buf0 |-> BufVals])
            /\ aborted' = aborted
       ELSE /\ aborted' = TRUE
            /\ UNCHANGED <<stateLock, stack>>

\* with_state: take the state lock or panic, apply f, release.
F(t) == t
with_state_silent(base) ==
  /\ reads' = reads + 1
  /\ observed' = Append(observed, [val |-> F(committed), committed |-> committed,
                                   mid |-> InUpdate, flush |-> InFlush])
  /\ stack' = base
  /\ UNCHANGED <<state, stateLock, aborted>>
with_state(base) ==
  /\ reads' = reads + 1
  /\ IF WithStateTryLock(stateLock)
       THEN /\ observed' = Append(observed, [val |-> F(state), committed |-> committed,
                                             mid |-> InUpdate, flush |-> InFlush])
            /\ stack' = base
            /\ aborted' = aborted
       ELSE /\ aborted' = TRUE
            /\ UNCHANGED <<observed, stack>>
  /\ UNCHANGED <<state, stateLock>>

\* ---- GizmoComponent::new: up to the call of view, and its return ----
CallViewNever(n) == n
CallView(n) == n + 1

\* the state's lock while view runs: `component`, the guard of
\* component_var.try_lock(), lives to the end of the block that calls view
ViewGuardDropped == "free"
ViewGuard == "held"

new ==
  /\ ~aborted /\ pc = "start"
  /\ TryLock(stateLock)
  /\ stateLock' = ViewGuard
  /\ viewCalls' = CallView(viewCalls)
  /\ pc' = "view"
  /\ \E rs \in {<<>>, <<[kind |-> "view", since |-> 0]>>} : responders' = rs
  /\ UNCHANGED <<state, out_msgs, timers, nextTimer, stack, aborted, committed,
                 sendLog, done, pushed, delivered, flushLog, observed, reads, received>>
  /\ UNCHANGED kind
  /\ UNCHANGED init
  /\ UNCHANGED bufLock

\* view sends a model message on the transmitter it was given, during new
ViewSendModel ==
  /\ ~aborted /\ pc = "view"
  /\ Len(sendLog) < SendBound /\ Ops < MaxOps
  /\ \E m \in ModelMsgs : RxInRespond("view", stack, m)
  /\ UNCHANGED <<pc, state, out_msgs, timers, nextTimer, committed, done, pushed,
                 delivered, flushLog, observed, reads, viewCalls>>
  /\ UNCHANGED kind
  /\ UNCHANGED init
  /\ UNCHANGED <<responders, received>>
  /\ UNCHANGED bufLock

NewReturn ==
  /\ ~aborted /\ pc = "view" /\ stack = <<>>
  /\ stateLock' = "free"
  /\ pc' = "ready"
  /\ UNCHANGED <<state, out_msgs, timers, nextTimer, stack, aborted, hist>>
  /\ UNCHANGED kind
  /\ UNCHANGED bufLock

\* ---- GizmoComponent::update (send_model) and with_state, called from outside ----
SendModel ==
  /\ ~aborted /\ pc = "ready" /\ stack = <<>>
  /\ Len(sendLog) < SendBound /\ Ops < MaxOps
  /\ \E m \in ModelMsgs : RxInRespond("ext", stack, m)
  /\ UNCHANGED <<pc, state, out_msgs, timers, nextTimer, committed, done, pushed,
                 delivered, flushLog, observed, reads, viewCalls>>
  /\ UNCHANGED kind
  /\ UNCHANGED init
  /\ UNCHANGED <<responders, received>>
  /\ UNCHANGED bufLock

ExtWithState ==
  /\ ~aborted /\ pc = "ready" /\ stack = <<>> /\ init = <<>>
  /\ reads < MaxReads /\ Ops < MaxOps
  /\ with_state(stack)
  /\ UNCHANGED <<pc, out_msgs, timers, nextTimer, committed, sendLog, done, pushed,
                 delivered, flushLog, viewCalls>>
  /\ UNCHANGED kind
  /\ UNCHANGED init
  /\ UNCHANGED <<responders, received>>
  /\ UNCHANGED bufLock

\* ---- GizmoComponent::tx_into: self.recv.branch().forward_map(&tx, |msg| msg.clone()) ----
\* what a responder gets at its registration of the messages sent before
ReplayAll(r, sent) == [i \in 1..Len(sent) |-> [r |-> r, hop |-> 0, id |-> sent[i].id,
                                               val |-> sent[i].val]]
Replay(r, sent) == <<>>

tx_into ==
  /\ ~aborted /\ pc = "ready" /\ stack = <<>> /\ init = <<>>
  /\ Branches < MaxBranches /\ Ops < MaxOps
  /\ responders' = Append(responders, [kind |-> "fwd", since |-> Len(delivered)])
  /\ received' = received \o Replay(Len(responders) + 1, delivered)
  /\ UNCHANGED <<kind, pc, state, stateLock, out_msgs, timers, nextTimer, stack,
                 aborted, committed, sendLog, done, pushed, delivered, flushLog,
                 observed, reads, viewCalls, init>>
  /\ UNCHANGED bufLock

\* ---- GizmoComponent::run_init ----
InitLists == UNION {[1..n -> ModelMsgs] : n \in 0..MaxInit}
InitOrderReversed(msgs) == [i \in 1..Len(msgs) |-> msgs[Len(msgs) + 1 - i]]
InitOrder(msgs) == msgs

run_init(msgs) ==
  /\ ~aborted /\ pc = "ready" /\ stack = <<>> /\ init = <<>>
  /\ Len(sendLog) + Len(msgs) <= SendBound /\ Ops + 1 + Len(msgs) <= MaxOps
  /\ stack' = <<[op |-> "run_init", msgs |-> InitOrder(msgs)]>>
  /\ init' = <<[msgs |-> msgs, first |-> Len(sendLog) + 1, st0 |-> state,
                buf0 |-> BufVals, epoch |-> Len(flushLog), run |-> FALSE]>>
  /\ UNCHANGED <<kind, pc, state, stateLock, out_msgs, timers, nextTimer, aborted,
                 committed, sendLog, done, pushed, delivered, flushLog, observed,
                 reads, viewCalls, responders, received>>
  /\ UNCHANGED bufLock

\* self.update(&msg) for the next element of the list
RunInitUpdate ==
  /\ InFrame("run_init") /\ Len(Top.msgs) > 0
  /\ RxInRespond("init", SetTop([Top EXCEPT !.msgs = Tail(@)]), Head(Top.msgs))
  /\ UNCHANGED <<kind, pc, state, out_msgs, timers, nextTimer, committed, done,
                 pushed, delivered, flushLog, observed, reads, viewCalls, init,
                 responders, received>>
  /\ UNCHANGED bufLock

\* self.run()
RunInitRun ==
  /\ InFrame("run_init") /\ Len(Top.msgs) = 0
  /\ stack' = Pop
  /\ init' = <<[init[1] EXCEPT !.run = TRUE] @@ [st1 |-> state, buf1 |-> BufVals]>>
  /\ UNCHANGED <<kind, pc, state, stateLock, out_msgs, timers, nextTimer, aborted,
                 committed, sendLog, done, pushed, delivered, flushLog, observed,
                 reads, viewCalls, responders, received>>
  /\ UNCHANGED bufLock

RunInit == \E msgs \in InitLists : run_init(msgs)

\* ---- the batching responder on rx_view ----
push(msgs, msg) == Append(msgs, msg)
should_schedule_always(msgs) == TRUE
should_schedule_never(msgs) == FALSE
should_schedule(msgs) == Len(msgs) = 1

\* utils::timeout(0, callback): the callback runs later, once, and again only
\* if it returns true
timeout(ts, t) == ts \cup {t}
Reschedule(ts, t, again) == IF again THEN ts \cup {t} ELSE ts

\* out_msgs.try_lock().expect(..): the guard lives to the end of the block
\* that pushes, or the responder panics
RxViewRespond(msg) ==
  IF TryLock(bufLock)
    THEN /\ out_msgs' = push(out_msgs, msg)
         /\ IF should_schedule(push(out_msgs, msg))
              THEN /\ timers' = timeout(timers, nextTimer)
                   /\ nextTimer' = nextTimer + 1
              ELSE UNCHANGED <<timers, nextTimer>>
         /\ UNCHANGED <<bufLock, aborted>>
    ELSE /\ aborted' = TRUE
         /\ UNCHANGED <<bufLock, out_msgs, timers, nextTimer>>

\* ---- Component::update, user code, step by step ----
IncrementTwice(t) == t + 2
Increment(t) == t + 1

UpdateInc ==
  /\ InFrame("update") /\ Top.at = "any" /\ state < MaxState
  /\ state' = Increment(state)
  /\ UNCHANGED <<pc, stateLock, out_msgs, timers, nextTimer, stack, aborted, hist>>
  /\ UNCHANGED kind
  /\ UNCHANGED bufLock

\* tx_view.send(&msg) inside update: the responder on rx_view runs
TxViewSend(val) ==
  LET msg == [id |-> Len(pushed) + 1, val |-> val] IN
    /\ RxViewRespond(msg)
    /\ pushed' = IF TryLock(bufLock)
                   THEN Append(pushed, [id |-> msg.id, val |-> msg.val,
                                        call |-> Top.call, epoch |-> Len(flushLog)])
                   ELSE pushed

UpdateSendView ==
  /\ InFrame("update") /\ Top.at = "any" /\ Len(pushed) < MaxViews
  /\ TxViewSend(state)
  /\ UNCHANGED <<pc, state, stateLock, stack, committed, sendLog, done,
                 delivered, flushLog, observed, reads, viewCalls>>
  /\ UNCHANGED kind
  /\ UNCHANGED init
  /\ UNCHANGED <<responders, received>>

UpdateSelfSend ==
  /\ InFrame("update") /\ Top.at = "any"
  /\ Len(sendLog) < SendBound /\ Ops < MaxOps
  /\ \E m \in ModelMsgs : RxInRespond("update", stack, m)
  /\ UNCHANGED <<pc, state, out_msgs, timers, nextTimer, committed, done, pushed,
                 delivered, flushLog, observed, reads, viewCalls>>
  /\ UNCHANGED kind
  /\ UNCHANGED init
  /\ UNCHANGED <<responders, received>>
  /\ UNCHANGED bufLock

UpdateWithState ==
  /\ InFrame("update") /\ Top.at = "any"
  /\ reads < MaxReads /\ Ops < MaxOps
  /\ with_state(stack)
  /\ UNCHANGED <<pc, out_msgs, timers, nextTimer, committed, sendLog, done, pushed,
                 delivered, flushLog, viewCalls>>
  /\ UNCHANGED kind
  /\ UNCHANGED init
  /\ UNCHANGED <<responders, received>>
  /\ UNCHANGED bufLock

\* ---- App::update of the module documentation: In::Click ----
At(f, a) == [f EXCEPT !.at = a]

CounterInc ==
  /\ InFrame("update") /\ Top.at = "inc"
  /\ state' = Increment(state)
  /\ stack' = SetTop(At(Top, "send"))
  /\ UNCHANGED <<pc, stateLock, out_msgs, timers, nextTimer, aborted, hist>>
  /\ UNCHANGED kind
  /\ UNCHANGED bufLock

DrawClicks(n) == n

CounterSendView ==
  /\ InFrame("update") /\ kind = "counter" /\ Top.at = "send"
  /\ TxViewSend(DrawClicks(state))
  /\ stack' = SetTop(At(Top, "ret"))
  /\ UNCHANGED <<pc, state, stateLock, committed, sendLog, done,
                 delivered, flushLog, observed, reads, viewCalls>>
  /\ UNCHANGED kind
  /\ UNCHANGED init
  /\ UNCHANGED <<responders, received>>

\* ---- update of Box<BuilderFn>: tx_view.send(msg) ----
ForwardFirst(m) == 1
Forward(m) == m

StatelessSendView ==
  /\ InFrame("update") /\ kind = "stateless" /\ Top.at = "send"
  /\ TxViewSend(Forward(sendLog[Top.call].msg))
  /\ stack' = SetTop(At(Top, "ret"))
  /\ UNCHANGED <<pc, state, stateLock, committed, sendLog, done,
                 delivered, flushLog, observed, reads, viewCalls>>
  /\ UNCHANGED kind
  /\ UNCHANGED init
  /\ UNCHANGED <<responders, received>>

\* update returns: the guard `t` is dropped
UpdateReturn ==
  /\ InFrame("update") /\ Top.at \in {"any", "ret"}
  /\ stateLock' = "free"
  /\ stack' = Pop
  /\ committed' = state
  /\ done' = done \cup {Top.call}
  /\ UNCHANGED <<pc, state, out_msgs, timers, nextTimer, aborted, sendLog, pushed,
                 delivered, flushLog, observed, reads, viewCalls>>
  /\ UNCHANGED kind
  /\ UNCHANGED init
  /\ UNCHANGED <<responders, received>>
  /\ UNCHANGED bufLock

\* ---- the flush callback given to utils::timeout ----
\* The event loop runs a callback between events only: the stack is empty.
drain_first(msgs) == IF msgs = <<>> THEN <<>> ELSE <<Head(msgs)>>
drain_reversed(msgs) == [i \in 1..Len(msgs) |-> msgs[Len(msgs) + 1 - i]]
drain(msgs) == msgs
RemainingKept(msgs) == msgs
Remaining(msgs) == <<>>
FlushResultAgain == TRUE
FlushResult == FALSE

\* the state of the buffer's lock after `let msgs = { .. };`
DrainGuardKept == "held"
DrainGuard == "free"

FlushStart(t) ==
  /\ ~aborted /\ pc = "ready" /\ stack = <<>>
  /\ t \in timers
  /\ timers' = timers \ {t}
  /\ IF TryLock(bufLock)
       THEN /\ out_msgs' = Remaining(out_msgs)
            /\ bufLock' = DrainGuard
            /\ stack' = <<[op |-> "flush", timer |-> t, idx |-> Len(flushLog) + 1,
                           msgs |-> drain(out_msgs), cur |-> [id |-> 0, val |-> 0],
                           rest |-> <<>>]>>
            /\ flushLog' = Append(flushLog, [timer |-> t, msgs |-> drain(out_msgs),
                                             done |-> FALSE])
            /\ aborted' = aborted
       ELSE /\ aborted' = TRUE
            /\ UNCHANGED <<out_msgs, bufLock, stack, flushLog>>
  /\ UNCHANGED <<kind, pc, state, stateLock, nextTimer, committed, sendLog, done,
                 pushed, delivered, observed, reads, viewCalls, init, responders,
                 received>>

\* ---- Transmitter::send on the public output: tx_out_async.send(out_msg) ----
\* The responders registered at the time of the send are called one after the
\* other; frame f of the flush holds the message being sent (cur) and the
\* responders still to call for it (rest).
FanoutReversed(rs) == [i \in 1..Len(rs) |-> Len(rs) + 1 - i]
FanoutFirst(rs) == IF rs = <<>> THEN <<>> ELSE <<1>>
Fanout(rs) == [i \in 1..Len(rs) |-> i]

Begin(f) == f.rest = <<>>
Cur(f) == IF Begin(f) THEN Head(f.msgs) ELSE f.cur
Todo(f) == IF Begin(f) THEN Fanout(responders) ELSE f.rest
Sending == InFrame("flush") /\ (Top.rest # <<>> \/ Len(Top.msgs) > 0)

\* the frame after the call of the next responder
Send(f) == [f EXCEPT !.msgs = IF Begin(f) THEN Tail(@) ELSE @,
                     !.cur = Cur(f),
                     !.rest = IF Todo(f) = <<>> THEN <<>> ELSE Tail(Todo(f))]
Deliver(f) == IF Begin(f)
                THEN Append(delivered, [id |-> Head(f.msgs).id, val |-> Head(f.msgs).val,
                                        flush |-> f.idx])
                ELSE delivered

\* forward_map(&tx, |msg| msg.clone()): the responder sends the clone on tx,
\* whose own responder is called before the forwarding responder returns
ForwardMap(val) == val
Called(r, msg) == [r |-> r, hop |-> 0, id |-> msg.id, val |-> msg.val]
Forwarded(r, msg) == [r |-> r, hop |-> 1, id |-> msg.id, val |-> ForwardMap(msg.val)]
Respond(r, msg) == IF responders[r].kind = "fwd"
                     THEN <<Called(r, msg), Forwarded(r, msg)>>
                     ELSE <<Called(r, msg)>>
ViewResponds(f) == Todo(f) # <<>> /\ responders[Head(Todo(f))].kind = "view"

\* the next responder is called and returns (or there is none: the message
\* is dropped)
FlushDeliver ==
  /\ Sending
  /\ delivered' = Deliver(Top)
  /\ received' = IF Todo(Top) = <<>> THEN received
                 ELSE received \o Respond(Head(Todo(Top)), Cur(Top))
  /\ stack' = SetTop(Send(Top))
  /\ UNCHANGED <<kind, pc, state, stateLock, out_msgs, timers, nextTimer, aborted,
                 committed, sendLog, done, pushed, flushLog, observed, reads, viewCalls,
                 init, responders>>
  /\ UNCHANGED bufLock

\* the responder registered by view sends a model message into the instance
FlushDeliverSendModel ==
  /\ Sending /\ ViewResponds(Top)
  /\ Len(sendLog) < SendBound /\ Ops < MaxOps
  /\ delivered' = Deliver(Top)
  /\ received' = received \o Respond(Head(Todo(Top)), Cur(Top))
  /\ \E m \in ModelMsgs : RxInRespond("out", SetTop(Send(Top)), m)
  /\ UNCHANGED <<kind, pc, state, out_msgs, timers, nextTimer, committed, done, pushed,
                 flushLog, observed, reads, viewCalls, init, responders>>
  /\ UNCHANGED bufLock

\* the responder registered by view calls with_state
FlushDeliverWithState ==
  /\ Sending /\ ViewResponds(Top)
  /\ reads < MaxReads /\ Ops < MaxOps
  /\ delivered' = Deliver(Top)
  /\ received' = received \o Respond(Head(Todo(Top)), Cur(Top))
  /\ with_state(SetTop(Send(Top)))
  /\ UNCHANGED <<kind, pc, out_msgs, timers, nextTimer, committed, sendLog, done, pushed,
                 flushLog, viewCalls, init, responders>>
  /\ UNCHANGED bufLock

FlushReturn ==
  /\ InFrame("flush") /\ Len(Top.msgs) = 0 /\ Top.rest = <<>>
  /\ stack' = Pop
  /\ timers' = Reschedule(timers, Top.timer, FlushResult)
  /\ flushLog' = [flushLog EXCEPT ![Top.idx].done = TRUE]
  /\ bufLock' = "free"
  /\ UNCHANGED <<kind, pc, state, stateLock, out_msgs, nextTimer, aborted, committed,
                 sendLog, done, pushed, delivered, observed, reads, viewCalls, init,
                 responders, received>>

Flush == \E t \in timers : FlushStart(t)

Next ==
  \/ new
  \/ ViewSendModel
  \/ NewReturn
  \/ SendModel
  \/ ExtWithState
  \/ tx_into
  \/ RunInit
  \/ RunInitUpdate
  \/ RunInitRun
  \/ UpdateInc
  \/ UpdateSendView
  \/ UpdateSelfSend
  \/ UpdateWithState
  \/ CounterInc
  \/ CounterSendView
  \/ StatelessSendView
  \/ UpdateReturn
  \/ Flush
  \/ FlushDeliver
  \/ FlushDeliverSendModel
  \/ FlushDeliverWithState
  \/ FlushReturn

Spec == Init /\ [][Next]_vars

\* The event loop runs every scheduled callback, and a call in progress runs on.
FairSpec ==
  /\ Spec
  /\ WF_vars(Flush)
  /\ WF_vars(UpdateReturn)
  /\ WF_vars(CounterInc)
  /\ WF_vars(CounterSendView)
  /\ WF_vars(StatelessSendView)
  /\ WF_vars(RunInitUpdate)
  /\ WF_vars(RunInitRun)
  /\ WF_vars(FlushDeliver)
  /\ WF_vars(FlushReturn)

\* ---- operators used by the properties ----
Ids(q) == [i \in 1..Len(q) |-> q[i].id]
Vals(q) == [i \in 1..Len(q) |-> q[i].val]
NoDup(q) == \A i, j \in 1..Len(q) : q[i] = q[j] => i = j
IsPrefix(q, r) == Len(q) <= Len(r) /\ \A i \in 1..Len(q) : q[i] = r[i]
IsBlockOf(q, r) == \E off \in 0..Len(r) :
                      off + Len(q) <= Len(r) /\ \A i \in 1..Len(q) : r[off + i] = q[i]
Occurs(x, q) == Cardinality({i \in 1..Len(q) : q[i] = x})
PushedBy(c) == Ids(SelectSeq(pushed, LAMBDA m : m.call = c))
PushedIn(e) == Ids(SelectSeq(pushed, LAMBDA m : m.epoch = e))
DeliveredBy(k) == Ids(SelectSeq(delivered, LAMBDA m : m.flush = k))
Flushes == 1..Len(flushLog)
Calls == 1..Len(sendLog)
Ran == [k \in Flushes |-> flushLog[k].timer]
\* the most view messages any component here can send
PushBound == IF MaxViews > MaxClicks THEN MaxViews ELSE MaxClicks

\* C1 (batching collapse): the view messages one update call sent on tx_view
\* are delivered on the public output exactly once each, and a flush callback
\* that has run to its end and delivered one of them has delivered all of
\* them, next to each other and in the order they were sent.
C1_BatchingCollapse ==
  \A c \in done :
    /\ \A i \in 1..Len(PushedBy(c)) : Occurs(PushedBy(c)[i], Ids(delivered)) <= 1
    /\ \A k \in Flushes :
         (flushLog[k].done /\ \E i \in 1..Len(PushedBy(c)) :
                                 Occurs(PushedBy(c)[i], DeliveredBy(k)) > 0)
           => IsBlockOf(PushedBy(c), DeliveredBy(k))

\* one update call sent MaxViews view messages and one flush delivered exactly them
C1_Witness ==
  \E c \in done : \E k \in Flushes :
    /\ Len(PushedBy(c)) = MaxViews
    /\ flushLog[k].done
    /\ DeliveredBy(k) = PushedBy(c)
    /\ Ids(delivered) = PushedBy(c)

\* C2 (tick coalescing): the view messages sent between the start of one
\* flush and the start of the next (one tick), by however many update calls,
\* have one flush callback scheduled for them, and that callback, once it has
\* run to its end, has delivered exactly them in the order they were sent.
C2_TickCoalescing ==
  /\ nextTimer - 1 = Cardinality({pushed[i].epoch : i \in 1..Len(pushed)})
  /\ \A k \in Flushes : flushLog[k].done => DeliveredBy(k) = PushedIn(k - 1)

\* two update calls sent [v1] and [v2] before any flush ran; one flush
\* was scheduled and delivered [v1, v2]
C2_Witness ==
  /\ nextTimer = 2 /\ timers = {}
  /\ Len(flushLog) = 1 /\ flushLog[1].done
  /\ \E c1, c2 \in done :
       /\ c1 < c2
       /\ Len(PushedBy(c1)) = 1 /\ Len(PushedBy(c2)) = 1
       /\ DeliveredBy(1) = PushedBy(c1) \o PushedBy(c2)

\* C3 (no duplicate scheduling): a send on tx_view schedules a flush exactly
\* when it takes the buffer from empty to one message, and a send onto a
\* non-empty buffer leaves the scheduled callbacks as they are; at most one
\* flush callback is scheduled and not yet run; no callback runs twice.
C3_NoDuplicateScheduling ==
  /\ [](Cardinality(timers) <= 1 /\ NoDup(Ran))
  /\ [][pushed' # pushed =>
          /\ (nextTimer' # nextTimer) <=> (Len(out_msgs) = 0 /\ Len(out_msgs') = 1)
          /\ nextTimer' # nextTimer => timers' = timers \cup {nextTimer}
          /\ Len(out_msgs) > 0 => timers' = timers]_vars

\* three messages wait in the buffer and one flush is scheduled for them
C3_Witness == Len(out_msgs) = 3 /\ Cardinality(timers) = 1 /\ nextTimer = 2

\* C4 (output order): the view messages delivered so far on the public output
\* are a prefix of the view messages sent on tx_view, ids and values.
C4_OutputOrder ==
  /\ IsPrefix(Ids(delivered), Ids(pushed))
  /\ IsPrefix(Vals(delivered), Vals(pushed))

\* a responder on the public output sent a model message during a flush, its
\* update sent a view message, and both flushes have delivered
C4_Witness ==
  /\ \E c \in done : sendLog[c].from = "out" /\ Len(PushedBy(c)) > 0
  /\ Len(flushLog) = 2 /\ flushLog[2].done
  /\ Len(delivered) >= 3
  /\ Len(delivered) = Len(pushed)

\* C5 (no loss, no duplication): with an event loop that runs every scheduled
\* callback (FairSpec), every view message sent on tx_view is delivered on the
\* public output, unless a panic has ended the program, and none is delivered
\* twice; a non-empty buffer leads to a run of the flush callback, and a
\* scheduled callback leaves the scheduled ones only by being run.
C5_NoLossNoDuplication ==
  /\ [](NoDup(Ids(delivered)))
  /\ \A i \in 1..PushBound :
       (Len(pushed) >= i) ~> (aborted \/ Occurs(i, Ids(delivered)) = 1)
  /\ (out_msgs # <<>>) ~> (aborted \/ out_msgs = <<>>)
  /\ [][\A t \in timers : t \notin timers' =>
          Len(flushLog') = Len(flushLog) + 1 /\ flushLog'[Len(flushLog')].timer = t]_vars

\* two flushes have run and every view message sent has been delivered
C5_Witness ==
  /\ ~aborted
  /\ Len(pushed) >= 2
  /\ Ids(delivered) = Ids(pushed)
  /\ Len(flushLog) = 2 /\ flushLog[2].done
  /\ out_msgs = <<>> /\ timers = {}

\* C6 (deferred delivery): when an update call returns, every view message it
\* sent is in the pending buffer, a flush is scheduled, and none of them has
\* been delivered; a message is delivered only by a step of the flush
\* callback that drained it.
C6_DeferredDelivery ==
  [][/\ done' # done =>
          \A i \in 1..Len(pushed) : pushed[i].call = Top.call =>
             /\ \E j \in 1..Len(out_msgs') : out_msgs'[j].id = pushed[i].id
             /\ timers' # {}
             /\ Occurs(pushed[i].id, Ids(delivered')) = 0
     /\ delivered' # delivered =>
          /\ Len(stack) > 0 /\ Top.op = "flush"
          /\ Len(delivered') = Len(delivered) + 1
          /\ \E j \in 1..Len(Top.msgs) : Top.msgs[j].id = delivered'[Len(delivered')].id
          /\ delivered'[Len(delivered')].flush = Top.idx
          /\ flushLog[Top.idx].timer \notin timers]_vars

\* an update call that sent view messages has returned and nothing has been
\* delivered yet
C6_Witness ==
  /\ stack = <<>> /\ delivered = <<>>
  /\ \E c \in done : Len(PushedBy(c)) = 2
  /\ Len(out_msgs) = 2 /\ Cardinality(timers) = 1

\* C7 (state isolation): every state value with_state applied its function to
\* was read while no update call was in progress, and is the value the state
\* had when the last update call returned (or the initial one).
C7_StateIsolation ==
  \A i \in 1..Len(observed) :
    /\ ~observed[i].mid
    /\ observed[i].val = observed[i].committed

\* with_state read the state before an update call and again after an update
\* call that changed it
C7_Witness ==
  /\ Len(observed) = 2
  /\ observed[1].val = 0 /\ observed[2].val = 1
  /\ done # {}

\* C8 (read_state fails loudly): a with_state call made while the state lock
\* is held panics and applies its function to nothing; one made while the
\* lock is free applies its function to the state, and leaves the state and
\* the lock as they were.
C8_WithStateFailsLoudly ==
  [][reads' # reads =>
       IF stateLock = "held"
         THEN aborted' /\ observed' = observed
         ELSE /\ ~aborted'
              /\ Len(observed') = Len(observed) + 1
              /\ observed'[Len(observed')].val = state
              /\ state' = state
              /\ stateLock' = "free"]_vars

\* with_state was called from inside update and the program panicked; an
\* earlier call from outside had returned the state
C8_Witness ==
  /\ aborted /\ reads = 2 /\ Len(observed) = 1
  /\ InUpdate /\ stateLock = "held"

\* C9 as stated: a model message sent into the instance from inside update
\* has a nested update call run for it, which has returned when the outer
\* call goes on.
C9_NestedUpdateRuns ==
  \A c \in Calls : sendLog[c].from = "update" =>
    /\ sendLog[c].ran
    /\ ~aborted
    /\ (\A i \in 1..Len(stack) : stack[i].op = "update" => stack[i].call # c) => c \in done

\* C9 (amended): a model message sent into the instance from inside update
\* finds the state lock held by the outer update call: the responder panics,
\* no nested update call runs, and the outer call never returns.
C9_NestedSendAborts ==
  \A c \in Calls : sendLog[c].from = "update" =>
    /\ ~sendLog[c].ran
    /\ aborted
    /\ c \notin done
    /\ sendLog[c].by \notin done
    /\ \A i \in 1..Len(pushed) : pushed[i].call # c

\* update sent a model message into its own instance
C9_Witness ==
  /\ \E c \in Calls : sendLog[c].from = "update" /\ sendLog[c].by = 1
  /\ aborted /\ InUpdate

\* C10 (view is called once): view has been called exactly once from the
\* moment new calls it, it is called by new only, and no update call has run
\* before new returned.
C10_ViewCalledOnce ==
  /\ [](viewCalls = IF pc = "start" THEN 0 ELSE 1)
  /\ [](pc # "ready" => \A c \in Calls : ~sendLog[c].ran)
  /\ [][viewCalls' # viewCalls => pc = "start" /\ pc' = "view"]_vars

\* after new: model messages were handled, a flush ran and with_state was
\* called, and view has been called once
C10_Witness ==
  /\ pc = "ready" /\ viewCalls = 1
  /\ done # {} /\ reads > 0
  /\ Len(flushLog) > 0 /\ flushLog[1].done

\* ---- operators used by the properties of the counter and stateless components ----
Inputs == Vals(SelectSeq([c \in Calls |-> [val |-> sendLog[c].msg, ran |-> sendLog[c].ran]],
                         LAMBDA e : e.ran))
DeliveredValsBy(k) == Vals(SelectSeq(delivered, LAMBDA m : m.flush = k))
Quiescent == ~aborted /\ stack = <<>> /\ timers = {}

\* C11 (stateless forwarding): for Box<BuilderFn>, the update call for model
\* message m sends m, and nothing else, on tx_view; the flush delivers it
\* unchanged; the values delivered are a prefix of the model messages
\* handled, and all of them once no flush is pending.
C11_StatelessForwarding ==
  kind = "stateless" =>
    /\ \A c \in done : /\ Len(PushedBy(c)) = 1
                       /\ pushed[PushedBy(c)[1]].val = sendLog[c].msg
    /\ \A i \in 1..Len(delivered) :
         delivered[i].val = sendLog[pushed[delivered[i].id].call].msg
    /\ IsPrefix(Vals(delivered), Inputs)
    /\ Quiescent => Vals(delivered) = Inputs

\* the stateless component was sent 2 and then 1, and delivered 2 and then 1
C11_Witness ==
  /\ kind = "stateless" /\ Quiescent
  /\ Inputs = <<2, 1>>
  /\ Vals(delivered) = <<2, 1>>

\* C12 (counter end to end): the counter's i-th view message carries i; after
\* n handled clicks the state is n; three clicks before any flush schedule
\* one flush, leave state 3, and that flush, once run, has delivered 1, 2, 3.
C12_CounterEndToEnd ==
  kind = "counter" =>
    /\ \A i \in 1..Len(pushed) : pushed[i].val = i
    /\ (~aborted /\ stack = <<>>) => state = Cardinality(done)
    /\ (stack = <<>> /\ Cardinality(done) = 3 /\ Len(PushedIn(0)) = 3) =>
          state = 3 /\ nextTimer = 2
    /\ (Len(PushedIn(0)) = 3 /\ Len(flushLog) > 0 /\ flushLog[1].done) =>
          DeliveredValsBy(1) = <<1, 2, 3>>

\* three clicks, then one flush that delivered 1, 2, 3
C12_Witness ==
  /\ kind = "counter" /\ Quiescent
  /\ state = 3
  /\ Len(flushLog) = 1 /\ nextTimer = 2
  /\ Vals(delivered) = <<1, 2, 3>>
  /\ \A i \in 1..3 : delivered[i].flush = 1

\* ---- what send_model(m) leaves behind, for the components whose update is
\* ---- a function of the state and the message: <<state, buffered values>>
SendModelResult(st, buf, m) ==
  CASE kind = "counter" -> <<st + 1, Append(buf, st + 1)>>
    [] kind = "stateless" -> <<st, Append(buf, m)>>
    [] OTHER -> <<st, buf>>

RECURSIVE SendModelAll(_, _, _)
SendModelAll(st, buf, msgs) ==
  IF msgs = <<>> THEN <<st, buf>>
  ELSE LET r == SendModelResult(st, buf, Head(msgs))
       IN SendModelAll(r[1], r[2], Tail(msgs))

InitCalls == {c \in Calls : sendLog[c].from = "init"}

\* C13 (run_init is send_model in list order): run_init sends the elements
\* of its list on tx_in in list order, each handled by one update call that
\* has returned before the next is sent and before run is called; no flush
\* starts meanwhile, so their view messages are delivered by one flush; and
\* for the counter and the stateless component the state and the buffer at
\* the call of run are those the same send_model calls leave behind.
C13_RunInitIsSendModel ==
  /\ (kind # "generic" /\ Len(stack) > 0 /\ Top.op = "update" /\ Top.at = "ret") =>
        <<state, BufVals>> = SendModelResult(Top.st0, Top.buf0, sendLog[Top.call].msg)
  /\ init = <<>> => InitCalls = {}
  /\ init # <<>> =>
       LET r == init[1] IN
         /\ \A c \in InitCalls : /\ c - r.first + 1 \in 1..Len(r.msgs)
                                 /\ sendLog[c].msg = r.msgs[c - r.first + 1]
                                 /\ sendLog[c].ran
                                 /\ \A b \in InitCalls : b < c => b \in done
         /\ \A i \in 1..Len(pushed) : pushed[i].call \in InitCalls =>
               pushed[i].epoch = r.epoch
         /\ \A i \in 1..Len(delivered) : pushed[delivered[i].id].call \in InitCalls =>
               delivered[i].flush = r.epoch + 1
         /\ (\E i \in 1..Len(stack) : stack[i].op = "run_init") => Len(flushLog) = r.epoch
         /\ r.run =>
              /\ InitCalls = r.first..(r.first + Len(r.msgs) - 1)
              /\ InitCalls \subseteq done
              /\ kind # "generic" => <<r.st1, r.buf1>> = SendModelAll(r.st0, r.buf0, r.msgs)

\* run_init(<<2, 1>>) on the stateless component has called run, and one
\* flush delivered 2 and then 1
C13_Witness ==
  /\ kind = "stateless" /\ Quiescent
  /\ init # <<>> /\ init[1].run /\ init[1].msgs = <<2, 1>>
  /\ InitCalls = {1, 2}
  /\ Len(flushLog) = 1 /\ flushLog[1].done
  /\ Vals(delivered) = <<2, 1>>

\* C14 (fan-out order and depth-first delivery): the responders registered on
\* the public output are called for each message in their registration order;
\* the send a forwarding responder derives has reached its target before the
\* next responder is called, and an update started by a responder has returned
\* by then; a send on tx_in returns only when the update call it started has
\* returned, and no view message is pushed for a call that has returned.
CalledFor(id) == {i \in 1..Len(received) : received[i].id = id /\ received[i].hop = 0}
OnStack(c) == \E i \in 1..Len(stack) : stack[i].op = "update" /\ stack[i].call = c
FanoutInOrder ==
  /\ \A i, j \in 1..Len(received) :
       (i < j /\ received[i].id = received[j].id /\ received[i].hop = 0
          /\ received[j].hop = 0) => received[i].r < received[j].r
  /\ \A i \in 1..Len(received) :
       (received[i].hop = 0 /\ responders[received[i].r].kind = "fwd")
         => /\ i < Len(received)
            /\ received[i + 1] = [received[i] EXCEPT !.hop = 1]
  /\ \A c \in Calls : (sendLog[c].ran /\ c \notin done) => OnStack(c)
C14_FanoutDepthFirst ==
  [][/\ FanoutInOrder'
     /\ received' # received => \A c \in Calls : sendLog[c].ran => c \in done
     /\ \A c \in done : PushedBy(c)' = PushedBy(c)]_vars
C14_Witness ==
  /\ Len(responders) = 3 /\ stack = <<>> /\ ~aborted
  /\ Calls = {1} /\ done = {1}
  /\ \E i \in 1..Len(delivered) :
       /\ Cardinality(CalledFor(delivered[i].id)) = 3
       /\ Len(received) = 5
       /\ received[1].r = 1 /\ received[2].r = 2 /\ received[3].hop = 1
       /\ received[4].r = 3 /\ received[5].hop = 1

\* C15 (no replay): a responder registered on the public output after N
\* messages were sent on it is never called with one of those N messages; a
\* message sent while no responder is registered reaches no responder, then or
\* later; a receiver branched by tx_into after a flush gets only messages of
\* later flushes.
DeliveredAt(id) == CHOOSE j \in 1..Len(delivered) : delivered[j].id = id
FlushesBefore(r) == {delivered[j].flush : j \in 1..responders[r].since}
C15_NoReplay ==
  \A i \in 1..Len(received) :
    /\ \E j \in 1..Len(delivered) : delivered[j].id = received[i].id
    /\ DeliveredAt(received[i].id) > responders[received[i].r].since
    /\ \A k \in FlushesBefore(received[i].r) :
         delivered[DeliveredAt(received[i].id)].flush > k
C15_Witness ==
  /\ Len(responders) = 1 /\ responders[1].kind = "fwd" /\ responders[1].since = 1
  /\ Len(delivered) = 2 /\ stack = <<>> /\ ~aborted
  /\ Len(flushLog) = 2 /\ flushLog[2].done
  /\ Len(received) = 2
  /\ received[1].id = delivered[2].id /\ received[2].id = delivered[2].id

\* C16 (independent branches): the responder on the receiver handed to view
\* and every responder on a receiver branched by tx_into are each called
\* exactly once, with the message's own value, for every message sent on the
\* public output after their registration, and never for another one.
Got(r, id, hop) == {i \in 1..Len(received) :
                      received[i].r = r /\ received[i].id = id /\ received[i].hop = hop}
StillToCall(r, id) ==
  /\ stack # <<>> /\ stack[1].op = "flush" /\ stack[1].cur.id = id
  /\ \E n \in 1..Len(stack[1].rest) : stack[1].rest[n] = r
C16_IndependentBranches ==
  \A r \in 1..Len(responders) : \A j \in 1..Len(delivered) :
    /\ Cardinality(Got(r, delivered[j].id, 0))
         = IF j > responders[r].since /\ ~StillToCall(r, delivered[j].id) THEN 1 ELSE 0
    /\ Cardinality(Got(r, delivered[j].id, 1))
         = IF responders[r].kind = "fwd" THEN Cardinality(Got(r, delivered[j].id, 0)) ELSE 0
    /\ \A i \in Got(r, delivered[j].id, 0) \cup Got(r, delivered[j].id, 1) :
         received[i].val = delivered[j].val
C16_Witness ==
  /\ Len(responders) = 2 /\ responders[1].kind = "view" /\ responders[2].kind = "fwd"
  /\ stack = <<>> /\ ~aborted
  /\ Len(delivered) = 2 /\ Len(flushLog) = 1 /\ flushLog[1].done
  /\ \A j \in 1..2 : /\ Cardinality(Got(1, delivered[j].id, 0)) = 1
                     /\ Cardinality(Got(2, delivered[j].id, 0)) = 1
                     /\ Cardinality(Got(2, delivered[j].id, 1)) = 1

\* C17 (buffer/flush invariant): the pending buffer is non-empty exactly when
\* one flush callback is scheduled and not yet run, it is empty when none is,
\* and every flush callback that runs drains at least one message.
C17_BufferFlushInvariant ==
  /\ Len(out_msgs) > 0 <=> Cardinality(timers) = 1
  /\ timers = {} <=> out_msgs = <<>>
  /\ \A k \in Flushes : Len(flushLog[k].msgs) > 0
\* a flush has drained the buffer, and an update after it sent no view message
C17_Witness ==
  /\ stack = <<>> /\ ~aborted /\ out_msgs = <<>> /\ timers = {}
  /\ Len(flushLog) = 1 /\ flushLog[1].done /\ nextTimer = 2
  /\ \E c1, c2 \in done : c1 < c2 /\ Len(PushedBy(c1)) > 0 /\ Len(PushedBy(c2)) = 0

\* C18 (no lock held while a flush delivers): while a flush callback runs the
\* buffer's lock is free from the drain on, and the state lock is free
\* whenever the callback itself is executing; a responder on the public output
\* that sends a model message or calls with_state during the flush gets the
\* state lock, and a push made during the flush gets the buffer's lock: none
\* of them aborts.
C18_NoLockHeldDuringFlush ==
  [][/\ InFlush' => bufLock' = "free"
     /\ InFrame("flush")' => stateLock' = "free"
     /\ (InFrame("flush") /\ sendLog' # sendLog)
          => (~aborted' /\ sendLog'[Len(sendLog')].ran /\ stateLock' = "held")
     /\ (InFrame("flush") /\ reads' # reads)
          => (~aborted' /\ Len(observed') = Len(observed) + 1)
     /\ (InFlush /\ sendLog' = sendLog /\ reads' = reads) => ~aborted']_vars
\* during one flush the responder registered by view has sent a model message,
\* whose update has run and returned, and has called with_state
C18_Witness ==
  /\ InFrame("flush") /\ ~aborted /\ Len(flushLog) = 1 /\ bufLock = "free"
  /\ \E c \in done : sendLog[c].from = "out" /\ sendLog[c].ran
  /\ \E i \in 1..Len(observed) : observed[i].flush

\* C19 (flush re-entrancy): a view message w pushed by an update that a
\* responder on the public output started while flush k delivers [v1..vn] is
\* not among v1..vn; it goes into the buffer the flush has drained, which holds
\* nothing but messages pushed during this flush; the first such push schedules
\* a callback and leaves exactly one scheduled; w is delivered by flush k + 1
\* only, after all of v1..vn, and, with an event loop that runs every scheduled
\* callback, it is delivered unless a panic has ended the program.
ByResponder(i) == IF i \in 1..Len(pushed) THEN sendLog[pushed[i].call].from = "out" ELSE FALSE
DeliveredLater(i) ==
  ByResponder(i) /\ \E j \in 1..Len(delivered) :
    delivered[j].id = pushed[i].id /\ delivered[j].flush = pushed[i].epoch + 1
C19_FlushReentrancy ==
  /\ [](\A i \in 1..Len(pushed) : ByResponder(i) =>
          LET w == pushed[i] IN
            /\ w.epoch \in Flushes
            /\ \A n \in 1..Len(flushLog[w.epoch].msgs) : flushLog[w.epoch].msgs[n].id # w.id
            /\ \A j \in 1..Len(delivered) : delivered[j].id = w.id =>
                 /\ delivered[j].flush = w.epoch + 1
                 /\ flushLog[w.epoch].done
                 /\ DeliveredBy(w.epoch) = Ids(flushLog[w.epoch].msgs)
                 /\ \A j2 \in 1..Len(delivered) : delivered[j2].flush = w.epoch => j2 < j)
  /\ [][(pushed' # pushed /\ InFlush) =>
          /\ sendLog'[pushed'[Len(pushed')].call].from = "out"
          /\ \A n \in 1..Len(out_msgs) : pushed[out_msgs[n].id].epoch = Len(flushLog)
          /\ out_msgs = <<>> => (timers = {} /\ timers' = {nextTimer})
          /\ out_msgs # <<>> => timers' = timers
          /\ Cardinality(timers') = 1
          /\ Ids(out_msgs') = Append(Ids(out_msgs), Len(pushed'))]_vars
  /\ \A i \in 1..PushBound :
       ByResponder(i) ~> (aborted \/ DeliveredLater(i))
\* the counter's first flush drained two messages, a responder reacted to one
\* of them with a click, and the message of that click came out of the second
\* flush, after both
C19_Witness ==
  /\ Len(flushLog) = 2 /\ flushLog[2].done /\ ~aborted
  /\ Len(flushLog[1].msgs) = 2
  /\ Len(pushed) = 3 /\ ByResponder(3) /\ pushed[3].epoch = 1
  /\ Ids(delivered) = <<1, 2, 3>>
  /\ delivered[3].flush = 2

\* C20 (construction holds the state lock across view): while view runs inside
\* GizmoComponent::new the state lock is held; a model message that view sends
\* on the transmitter it is given reaches the responder on rx_in, which fails
\* to get the lock and panics: update does not run for it, nothing is pushed,
\* and new never returns.
C20_ViewUnderStateLock ==
  /\ pc = "view" => stateLock = "held"
  /\ \A c \in Calls : sendLog[c].from = "view" =>
       /\ ~sendLog[c].ran /\ c \notin done /\ ~OnStack(c)
       /\ aborted /\ pc = "view"
       /\ state = 0 /\ pushed = <<>> /\ Len(sendLog) = c
C20_Witness ==
  /\ aborted /\ pc = "view" /\ viewCalls = 1
  /\ Len(sendLog) = 1 /\ sendLog[1].from = "view" /\ ~sendLog[1].ran

====
